---- MODULE Spec2Model ----
(***************************************************************************)
(* crypto_predictor.py: the indicator statements of compute_indicators,    *)
(* the signal evaluation (check_signals) and the rest of the loop body of  *)
(* main with its ATR-based take-profit / stop-loss targets.                *)
(*                                                                         *)
(* The file does not compile as it stands: the stochRSI statement of       *)
(* compute_indicators (source lines 146-150) opens a parenthesis that is   *)
(* never closed, and Python rejects the whole file with a SyntaxError      *)
(* before any statement of it runs.  The module therefore holds five       *)
(* specifications:                                                         *)
(*                                                                         *)
(*   Spec            the program as given: it is started and stops on the  *)
(*                   SyntaxError; nothing is fetched, computed or sent.    *)
(*   SpecIndicators  the text of fetch_data and of the statements of       *)
(*                   compute_indicators in front of the malformed one      *)
(*                   (lines 125-145), applied to a bar series.  It ends    *)
(*                   where the text stops being a program.                 *)
(*   SpecSignals     the text of check_signals and of the rest of the loop *)
(*                   body of main (lines 286-334), applied to a frame.     *)
(*                   The frame is the argument of check_signals; no        *)
(*                   statement of the file as given produces one.          *)
(*   SpecTargets     the text of lines 288-334 of main alone, applied to a *)
(*                   frame and to every pair of values of longSignal and   *)
(*                   shortSignal.                                          *)
(*   SpecBreakout    as SpecSignals, on frames whose breakout flags and    *)
(*                   ATR are what lines 163-176 make of a bar series.      *)
(*                                                                         *)
(* Numbers.  Prices, volumes and every derived column are exact rationals  *)
(* <<n, d>> in lowest terms with d > 0.  The three non-finite floats are   *)
(* NaN = <<0, 0>>, +inf = <<1, 0>> and -inf = <<-1, 0>>.  A comparison     *)
(* with NaN is false, as it is for the floats of pandas and numpy.         *)
(***************************************************************************)
EXTENDS Integers, Sequences, FiniteSets

(***************************************************************************)
(* Rational arithmetic                                                     *)
(***************************************************************************)
Abs(x) == IF x < 0 THEN -x ELSE x

Sgn(x) == IF x < 0 THEN -1 ELSE IF x > 0 THEN 1 ELSE 0

RECURSIVE GCD(_, _)
GCD(a, b) == IF b = 0 THEN a ELSE GCD(b, a % b)

NaN == <<0, 0>>

IsNaN(x) == x[1] = 0 /\ x[2] = 0

IsFinite(x) == x[2] # 0

Norm(n, d) ==
    IF d = 0 THEN <<Sgn(n), 0>>
    ELSE LET g == GCD(Abs(n), Abs(d))
         IN  <<Sgn(d) * (n \div g), Abs(d) \div g>>

R(n) == <<n, 1>>

Add(a, b) ==
    IF IsNaN(a) \/ IsNaN(b) THEN NaN
    ELSE IF IsFinite(a) /\ IsFinite(b) THEN Norm(a[1] * b[2] + b[1] * a[2], a[2] * b[2])
    ELSE IF ~IsFinite(a) /\ ~IsFinite(b) /\ a[1] # b[1] THEN NaN
    ELSE IF ~IsFinite(a) THEN a ELSE b

Neg(a) == <<-a[1], a[2]>>

Sub(a, b) == Add(a, Neg(b))

Mul(a, b) ==
    IF IsNaN(a) \/ IsNaN(b) THEN NaN
    ELSE IF IsFinite(a) /\ IsFinite(b) THEN Norm(a[1] * b[1], a[2] * b[2])
    ELSE <<Sgn(a[1]) * Sgn(b[1]), 0>>

\* float division: x/0 is +-inf, 0/0 is NaN (numpy float64, no exception)
Div(a, b) ==
    IF IsNaN(a) \/ IsNaN(b) THEN NaN
    ELSE IF IsFinite(a) /\ IsFinite(b) THEN Norm(a[1] * b[2], a[2] * b[1])
    ELSE IF ~IsFinite(a) /\ ~IsFinite(b) THEN NaN
    ELSE IF ~IsFinite(a) THEN <<a[1] * (IF b[1] < 0 THEN -1 ELSE 1), 0>>
    ELSE R(0)

\* a > b on floats: false when either side is NaN
Gt(a, b) ==
    /\ ~IsNaN(a)
    /\ ~IsNaN(b)
    /\ IF IsFinite(a) /\ IsFinite(b) THEN a[1] * b[2] > b[1] * a[2]
       ELSE IF ~IsFinite(a) /\ ~IsFinite(b) THEN a[1] > b[1]
       ELSE IF ~IsFinite(a) THEN a[1] > 0 ELSE b[1] < 0

Lt(a, b) == Gt(b, a)

Le(a, b) == ~IsNaN(a) /\ ~IsNaN(b) /\ ~Gt(a, b)

\* a == b on floats: NaN equals nothing
Eq(a, b) == ~IsNaN(a) /\ ~IsNaN(b) /\ a = b

RMax(a, b) == IF Gt(b, a) THEN b ELSE a

RMin(a, b) == IF Lt(b, a) THEN b ELSE a

(***************************************************************************)
(* pandas / ta primitives on columns.  A column is a sequence of numbers,  *)
(* one per bar, oldest first.                                              *)
(***************************************************************************)
\* a column held as an explicit sequence (each value computed once)
Series(f) == SubSeq(f, 1, Len(f))

Col(df, name) == Series([i \in 1..Len(df) |-> R(df[i][name])])

\* number of non-NaN observations in s[1..i], for every i up to n
RECURSIVE Counts(_, _)
Counts(s, n) ==
    IF n = 0 THEN <<>>
    ELSE LET c == Counts(s, n - 1)
         IN  Append(c, (IF n = 1 THEN 0 ELSE c[n - 1]) + (IF IsNaN(s[n]) THEN 0 ELSE 1))

\* Series.ewm(alpha=an/ad, adjust=False).mean() before min_periods masking, rows
\* 1..n: leading NaN are skipped, the first observation seeds the average, then
\* y[i] = (1 - alpha) * y[i-1] + alpha * x[i]
RECURSIVE EwmRaw(_, _, _, _)
EwmRaw(s, an, ad, n) ==
    IF n = 0 THEN <<>>
    ELSE LET y    == EwmRaw(s, an, ad, n - 1)
             prev == IF n = 1 THEN NaN ELSE y[n - 1]
         IN  Append(y, IF IsNaN(s[n]) THEN prev
                       ELSE IF IsNaN(prev) THEN s[n]
                       ELSE Add(Mul(<<ad - an, ad>>, prev), Mul(<<an, ad>>, s[n])))

\* Series.ewm(alpha=an/ad, min_periods=mp, adjust=False).mean()
Ewm(s, an, ad, mp) ==
    LET y == EwmRaw(s, an, ad, Len(s))
        c == Counts(s, Len(s))
    IN  Series([i \in 1..Len(s) |-> IF c[i] < mp \/ c[i] = 0 THEN NaN ELSE y[i]])

RECURSIVE MinRange(_, _, _)
MinRange(s, lo, hi) ==
    IF lo = hi THEN s[hi]
    ELSE LET m == MinRange(s, lo, hi - 1)
         IN  IF IsNaN(m) \/ IsNaN(s[hi]) THEN NaN ELSE RMin(m, s[hi])

RECURSIVE MaxRange(_, _, _)
MaxRange(s, lo, hi) ==
    IF lo = hi THEN s[hi]
    ELSE LET m == MaxRange(s, lo, hi - 1)
         IN  IF IsNaN(m) \/ IsNaN(s[hi]) THEN NaN ELSE RMax(m, s[hi])

RollingMin(s, w) ==
    Series([i \in 1..Len(s) |-> IF i < w THEN NaN ELSE MinRange(s, i - w + 1, i)])

RollingMax(s, w) ==
    Series([i \in 1..Len(s) |-> IF i < w THEN NaN ELSE MaxRange(s, i - w + 1, i)])

RECURSIVE SumRange(_, _, _)
SumRange(s, lo, hi) == IF lo > hi THEN R(0) ELSE Add(s[hi], SumRange(s, lo, hi - 1))

\* Series.shift(1)
Shift1(s) == Series([i \in 1..Len(s) |-> IF i = 1 THEN NaN ELSE s[i - 1]])

(***************************************************************************)
(* Parameters: load_parameters merges config.json over the defaults.       *)
(***************************************************************************)
defaults ==
    [emaFastLen |-> 50, emaSlowLen |-> 200, rsiLen |-> 14, stochLen |-> 14,
     bbLen |-> 20, bbMult |-> 2, macd_fast |-> 12, macd_slow |-> 26,
     macd_signal |-> 9, rsi_threshold_long |-> 55, rsi_threshold_short |-> 45,
     volAvg_window |-> 20, stoch_smooth_k |-> 3, stoch_smooth_d |-> 3,
     leverage |-> 10, take_profit_atr_multiplier |-> 2,
     stop_loss_atr_multiplier |-> 1]

\* The config.json of the modelled run.  It shortens the window lengths so
\* that every indicator converges within a series of a few bars; thresholds,
\* leverage and the ATR multipliers keep their defaults.
config_json ==
    [emaFastLen |-> 2, emaSlowLen |-> 3, rsiLen |-> 2, stochLen |-> 2,
     bbLen |-> 2, macd_fast |-> 1, macd_slow |-> 3, macd_signal |-> 3,
     volAvg_window |-> 2, stoch_smooth_k |-> 1, stoch_smooth_d |-> 2]

\* defaults.update(params)
load_parameters ==
    [key \in DOMAIN defaults |->
        IF key \in DOMAIN config_json THEN config_json[key] ELSE defaults[key]]

params == load_parameters

\* window=14 of the AverageTrueRange call: fixed, not read from params
atrWindow == 14

(***************************************************************************)
(* The indicator columns, one operator per statement of compute_indicators *)
(***************************************************************************)
\* df['close'].ewm(span=span, adjust=False).mean(): alpha = 2/(span+1), no min_periods
EmaClose(close, span) == Ewm(close, 2, span + 1, 0)

\* ta.trend._ema(series, periods): ewm(span=periods, min_periods=periods, adjust=False)
TaEma(s, periods) == Ewm(s, 2, periods + 1, periods)

ColSub(a, b) == Series([i \in 1..Len(a) |-> Sub(a[i], b[i])])

\* ta.trend.MACD(close, window_slow, window_fast, window_sign).macd()
MacdLine(close) == ColSub(TaEma(close, params.macd_fast), TaEma(close, params.macd_slow))

\* .macd_signal()
SignalLine(macd) == TaEma(macd, params.macd_signal)

\* .macd_diff()
MacdHist(macd, signal) == ColSub(macd, signal)

\* close.diff(1) split into gains and losses; the NaN of the first row becomes 0
UpDirection(df) ==
    Series([i \in 1..Len(df) |->
        IF i > 1 /\ df[i].close > df[i - 1].close THEN R(df[i].close - df[i - 1].close) ELSE R(0)])

DownDirection(df) ==
    Series([i \in 1..Len(df) |->
        IF i > 1 /\ df[i].close < df[i - 1].close THEN R(df[i - 1].close - df[i].close) ELSE R(0)])

\* ta.momentum.RSIIndicator(close, window).rsi(): Wilder smoothing (alpha = 1/window,
\* min_periods = window); 100 where the average loss is 0
Rsi(df) ==
    LET emaup == Ewm(UpDirection(df), 1, params.rsiLen, params.rsiLen)
        emadn == Ewm(DownDirection(df), 1, params.rsiLen, params.rsiLen)
    IN  Series([i \in 1..Len(df) |->
            IF Eq(emadn[i], R(0)) THEN R(100)
            ELSE Sub(R(100), Div(R(100), Add(R(1), Div(emaup[i], emadn[i]))))])

RsiMin(rsi) == RollingMin(rsi, params.stochLen)

RsiMax(rsi) == RollingMax(rsi, params.stochLen)


(***************************************************************************)
(* compute_indicators, lines 125-145                                       *)
(*                                                                         *)
(* A frame is the bar series plus the set of indicator columns that were   *)
(* assigned and their values.  The eight assignments of lines 125-145 are  *)
(* expressions of the close column.  The next statement, the assignment of *)
(* df['stochRSI'] (lines 146-150), is not an expression: the parenthesis   *)
(* opened in front of df['rsi_max'] is never closed and the comparison of  *)
(* the guard is missing.  It has no value to model, and neither has the    *)
(* function as a whole: no call of compute_indicators returns.             *)
(***************************************************************************)
ColsEma == {"emaFast", "emaSlow"}
ColsMacd == {"macdLine", "signalLine", "macdHist"}
ColsRsi == {"rsi", "rsi_min", "rsi_max"}

\* the frame after the assignments of lines 125-145
IndicatorStatements(df) ==
    LET close   == Col(df, "close")
        macd    == MacdLine(close)
        signal  == SignalLine(macd)
        rsi     == Rsi(df)
    IN  [bars     |-> df,
         columns  |-> ColsEma \cup ColsMacd \cup ColsRsi,
         emaFast  |-> EmaClose(close, params.emaFastLen),
         emaSlow  |-> EmaClose(close, params.emaSlowLen),
         macdLine |-> macd,
         signalLine |-> signal,
         macdHist |-> MacdHist(macd, signal),
         rsi      |-> rsi,
         rsi_min  |-> RsiMin(rsi),
         rsi_max  |-> RsiMax(rsi)]

(***************************************************************************)
(* compute_indicators, lines 163-176: price action and ATR.  These          *)
(* assignments are expressions of the high, low and close columns alone.   *)
(***************************************************************************)
PrevHigh(df) == Shift1(Col(df, "high"))

PrevLow(df) == Shift1(Col(df, "low"))

\* the comparison taken as >=
BullishBreakoutOrEqual(df) ==
    LET prevHigh == PrevHigh(df)
    IN  Series([i \in 1..Len(df) |-> ~Lt(R(df[i].close), prevHigh[i]) /\ ~IsNaN(prevHigh[i])])

\* df['close'] > df['prevHigh']: a boolean column, False on the first row
BullishBreakout(df) ==
    LET prevHigh == PrevHigh(df)
    IN  Series([i \in 1..Len(df) |-> Gt(R(df[i].close), prevHigh[i])])

BearishBreakdown(df) ==
    LET prevLow == PrevLow(df)
    IN  Series([i \in 1..Len(df) |-> Lt(R(df[i].close), prevLow[i])])

\* ta.volatility.AverageTrueRange._true_range: max of the three ranges, skipping
\* the NaN ones of the first row
TrueRange(df) ==
    Series([i \in 1..Len(df) |->
        LET tr1 == df[i].high - df[i].low
        IN  IF i = 1 THEN R(tr1)
            ELSE R(IF Abs(df[i].high - df[i - 1].close) >= Abs(df[i].low - df[i - 1].close)
                   THEN (IF Abs(df[i].high - df[i - 1].close) >= tr1
                         THEN Abs(df[i].high - df[i - 1].close) ELSE tr1)
                   ELSE (IF Abs(df[i].low - df[i - 1].close) >= tr1
                         THEN Abs(df[i].low - df[i - 1].close) ELSE tr1))])

\* average_true_range(): zeros before row `window`, the plain mean of the first
\* `window` true ranges on row `window`, Wilder's recursion after it
RECURSIVE AtrAt(_, _)
AtrAt(tr, i) ==
    IF i < atrWindow THEN R(0)
    ELSE IF i = atrWindow THEN Div(SumRange(tr, 1, atrWindow), R(atrWindow))
    ELSE Div(Add(Mul(AtrAt(tr, i - 1), R(atrWindow - 1)), tr[i]), R(atrWindow))

Atr(df) ==
    LET tr == TrueRange(df)
    IN  Series([i \in 1..Len(df) |-> AtrAt(tr, i)])

\* atr[self._window - 1] = ... raises IndexError on a series shorter than the
\* window: line 176 assigns no atr column
AtrRaises(df) == Len(df) < atrWindow

(***************************************************************************)
(* check_signals                                                           *)
(***************************************************************************)
\* latest = df.iloc[-1]; latest[name]
Latest(frame, name) == frame[name][Len(frame.bars)]

LatestBar(frame) == frame.bars[Len(frame.bars)]

\* latest['volume'] > latest['volAvg']
VolumeFilter(frame) == Gt(R(LatestBar(frame).volume), Latest(frame, "volAvg"))

\* the clauses after the rsi clause left out of the condition
LongClausesTruncated(frame) ==
    LET close == R(LatestBar(frame).close)
        has(c) == c \in frame.columns
    IN  << [needs |-> {"emaFast"},    holds |-> has("emaFast") /\ Gt(close, Latest(frame, "emaFast"))],
           [needs |-> {"emaSlow"},    holds |-> has("emaSlow") /\ Gt(close, Latest(frame, "emaSlow"))],
           [needs |-> {"macdLine", "signalLine"},
            holds |-> has("macdLine") /\ has("signalLine")
                      /\ Gt(Latest(frame, "macdLine"), Latest(frame, "signalLine"))],
           [needs |-> {"macdHist"},   holds |-> has("macdHist") /\ Gt(Latest(frame, "macdHist"), R(0))],
           [needs |-> {"rsi"},
            holds |-> has("rsi") /\ Gt(Latest(frame, "rsi"), R(params.rsi_threshold_long))] >>

\* The clauses of longCondition in source order: the columns each one reads
\* and whether it holds.  `and` evaluates left to right and stops at the first
\* false clause; reading a column the frame does not have raises KeyError.
LongClauses(frame) ==
    LET close == R(LatestBar(frame).close)
        has(c) == c \in frame.columns
    IN  << [needs |-> {"emaFast"},    holds |-> has("emaFast") /\ Gt(close, Latest(frame, "emaFast"))],
           [needs |-> {"emaSlow"},    holds |-> has("emaSlow") /\ Gt(close, Latest(frame, "emaSlow"))],
           [needs |-> {"macdLine", "signalLine"},
            holds |-> has("macdLine") /\ has("signalLine")
                      /\ Gt(Latest(frame, "macdLine"), Latest(frame, "signalLine"))],
           [needs |-> {"macdHist"},   holds |-> has("macdHist") /\ Gt(Latest(frame, "macdHist"), R(0))],
           [needs |-> {"rsi"},
            holds |-> has("rsi") /\ Gt(Latest(frame, "rsi"), R(params.rsi_threshold_long))],
           [needs |-> {"k", "d"},
            holds |-> has("k") /\ has("d") /\ Gt(Latest(frame, "k"), Latest(frame, "d"))],
           [needs |-> {"basis"},      holds |-> has("basis") /\ Gt(close, Latest(frame, "basis"))],
           [needs |-> {"volAvg"},
            holds |-> has("volAvg") /\ VolumeFilter(frame)],
           [needs |-> {"bullishBreakout"},
            holds |-> has("bullishBreakout") /\ Latest(frame, "bullishBreakout")] >>

\* the short condition a copy of the long condition
ShortClausesPasted(frame) == LongClauses(frame)

ShortClauses(frame) ==
    LET close == R(LatestBar(frame).close)
        has(c) == c \in frame.columns
    IN  << [needs |-> {"emaFast"},    holds |-> has("emaFast") /\ Lt(close, Latest(frame, "emaFast"))],
           [needs |-> {"emaSlow"},    holds |-> has("emaSlow") /\ Lt(close, Latest(frame, "emaSlow"))],
           [needs |-> {"macdLine", "signalLine"},
            holds |-> has("macdLine") /\ has("signalLine")
                      /\ Lt(Latest(frame, "macdLine"), Latest(frame, "signalLine"))],
           [needs |-> {"macdHist"},   holds |-> has("macdHist") /\ Lt(Latest(frame, "macdHist"), R(0))],
           [needs |-> {"rsi"},
            holds |-> has("rsi") /\ Lt(Latest(frame, "rsi"), R(params.rsi_threshold_short))],
           [needs |-> {"k", "d"},
            holds |-> has("k") /\ has("d") /\ Lt(Latest(frame, "k"), Latest(frame, "d"))],
           [needs |-> {"basis"},      holds |-> has("basis") /\ Lt(close, Latest(frame, "basis"))],
           [needs |-> {"volAvg"},
            holds |-> has("volAvg") /\ VolumeFilter(frame)],
           [needs |-> {"bearishBreakdown"},
            holds |-> has("bearishBreakdown") /\ Latest(frame, "bearishBreakdown")] >>

\* a and b and ...: "true", "false", or "raise" (KeyError) at the first clause
\* reached whose column is missing
RECURSIVE AndChain(_, _, _)
AndChain(clauses, columns, i) ==
    IF i > Len(clauses) THEN "true"
    ELSE IF ~(clauses[i].needs \subseteq columns) THEN "raise"
    ELSE IF ~clauses[i].holds THEN "false"
    ELSE AndChain(clauses, columns, i + 1)

\* (longSignal, shortSignal); the except branch returns (False, False)
check_signals(frame) ==
    IF frame.bars = <<>> THEN <<FALSE, FALSE>>
    ELSE LET longCondition  == AndChain(LongClauses(frame), frame.columns, 1)
             shortCondition == AndChain(ShortClauses(frame), frame.columns, 1)
         IN  IF longCondition = "raise" \/ shortCondition = "raise" THEN <<FALSE, FALSE>>
             ELSE <<longCondition = "true", shortCondition = "true">>


(***************************************************************************)
(* The bar series fetch_data can return                                    *)
(***************************************************************************)
\* bounds of the enumerated series: a series is a run of identical flat bars
\* (none or WarmLen of them) followed by at most MaxTail bars
MaxTail == 3
WarmLen == 3

Bar(o, h, l, c, v) == [open |-> o, high |-> h, low |-> l, close |-> c, volume |-> v]

Flat  == Bar(5, 5, 5, 5, 1)
Dip   == Bar(5, 5, 4, 4, 1)
Pop   == Bar(4, 7, 4, 7, 2)
Slump == Bar(5, 5, 2, 2, 3)
Crash == Bar(5, 5, 0, 0, 3)

BarSet == {Flat, Dip, Pop, Slump, Crash}

Tails == UNION {[1..n -> BarSet] : n \in 0..MaxTail}

Warm(m) == [j \in 1..m |-> Flat]

\* the rows of the DataFrame: the bars with their timestamps; `step` is the
\* distance of consecutive timestamps (0: the exchange repeated a timestamp)
Stamp(bars, step) ==
    [j \in 1..Len(bars) |->
        [timestamp |-> 1 + step * (j - 1), open |-> bars[j].open, high |-> bars[j].high,
         low |-> bars[j].low, close |-> bars[j].close, volume |-> bars[j].volume]]

\* fetch_data: None when the exchange call raises, else the DataFrame (which
\* may be empty)
None == [raised |-> TRUE, rows |-> <<>>]

DataFrame(rows) == [raised |-> FALSE, rows |-> rows]

FetchResults ==
    {None}
    \cup {DataFrame(Stamp(Warm(m) \o t, 1)) : m \in {0, WarmLen}, t \in Tails}
    \cup {DataFrame(Stamp(t, 0)) : t \in {u \in Tails : Len(u) >= 2}}


(***************************************************************************)
(* The frames check_signals is applied to.  check_signals reads the latest *)
(* row only (line 197), and so does main (lines 291, 298), so a frame is   *)
(* given by its latest row.  The row takes each of the nine clauses on the *)
(* long side, on the short side, at equality ("flat") or with its          *)
(* indicator undefined (NaN).  The values of k and d are ones a rolling    *)
(* mean of k can give (d = 1/2 from k = 1/10, 7/10, 7/10 or from           *)
(* k = 9/10, 3/10, 3/10).                                                  *)
(***************************************************************************)
\* bound of the enumerated rows: a row has all nine clauses on the long side
\* or all nine on the short side, but for at most MaxAltered clauses
MaxAltered == 1

Clauses == 1..9

Side == {"long", "short", "flat", "undef"}

Choices ==
    UNION {{[c \in Clauses |-> IF c \in S THEN a[c] ELSE b] : a \in [S -> Side \ {b}]} :
              b \in {"long", "short"},
              S \in {T \in SUBSET Clauses : Cardinality(T) <= MaxAltered}}

Pick(side, long, short, flat) ==
    CASE side = "long"  -> long
      [] side = "short" -> short
      [] side = "flat"  -> flat
      [] OTHER          -> NaN

\* the columns check_signals reads, and the one main reads
ColsRead ==
    {"emaFast", "emaSlow", "macdLine", "signalLine", "macdHist", "rsi", "k", "d",
     "basis", "volAvg", "bullishBreakout", "bearishBreakdown"}

\* the columns among them that are assigned after line 145
ColsLate == {"k", "d", "basis", "volAvg", "bullishBreakout", "bearishBreakdown", "atr"}

\* the columns a frame may lack: none, any single one, or all the late ones
MissingSets == {{}} \cup {{c} : c \in ColsRead \cup {"atr"}} \cup {ColsLate}

\* the latest closes: an ordinary price and the price 0
Closes == {100, 0}

RowFrame(ch, P, missing) ==
    LET val(name, x) == << IF name \in missing THEN NaN ELSE x >>
        flag(name, b) == << name \notin missing /\ b >>
    IN  [bars     |-> << [timestamp |-> 1, open |-> P, high |-> P, low |-> P,
                          close |-> P, volume |-> 200] >>,
         columns  |-> (ColsRead \cup {"atr"}) \ missing,
         emaFast  |-> val("emaFast", Pick(ch[1], R(90), R(110), R(P))),
         emaSlow  |-> val("emaSlow", Pick(ch[2], R(80), R(120), R(P))),
         macdLine |-> val("macdLine", Pick(ch[3], R(2), R(-2), R(1))),
         signalLine |-> val("signalLine", Pick(ch[3], R(1), R(-1), R(1))),
         macdHist |-> val("macdHist", Pick(ch[4], R(1), R(-1), R(0))),
         rsi      |-> val("rsi", Pick(ch[5], R(60), R(40), R(50))),
         k        |-> val("k", Pick(ch[6], <<7, 10>>, <<3, 10>>, <<1, 2>>)),
         d        |-> val("d", Pick(ch[6], <<1, 2>>, <<1, 2>>, <<1, 2>>)),
         basis    |-> val("basis", Pick(ch[7], R(95), R(105), R(P))),
         volAvg   |-> val("volAvg", Pick(ch[8], R(100), R(150), R(200))),
         bullishBreakout  |-> flag("bullishBreakout", ch[9] = "long"),
         bearishBreakdown |-> flag("bearishBreakdown", ch[9] = "short"),
         atr      |-> val("atr", R(5))]

Frames == {RowFrame(ch, P, missing) : ch \in Choices, P \in Closes, missing \in MissingSets}

(***************************************************************************)
(* The frames of SpecBreakout: a bar series with the columns of lines      *)
(* 163-176 computed from it.  The other columns check_signals reads have   *)
(* no value before the latest row and lie there all on the long or all on  *)
(* the short side of the latest bar.  The series are exchange-clean:       *)
(* high >= max(open, close) and low <= min(open, close) in every bar.      *)
(***************************************************************************)
BreakoutFrame(df, side) ==
    LET n == Len(df)
        P == R(df[n].close)
        V == R(df[n].volume)
        latest(x) == Series([i \in 1..n |-> IF i = n THEN x ELSE NaN])
    IN  [bars     |-> df,
         columns  |-> ColsRead \cup {"prevHigh", "prevLow"}
                      \cup (IF AtrRaises(df) THEN {} ELSE {"atr"}),
         emaFast  |-> latest(Pick(side, Sub(P, R(1)), Add(P, R(1)), P)),
         emaSlow  |-> latest(Pick(side, Sub(P, R(2)), Add(P, R(2)), P)),
         macdLine |-> latest(Pick(side, R(2), R(-2), R(1))),
         signalLine |-> latest(Pick(side, R(1), R(-1), R(1))),
         macdHist |-> latest(Pick(side, R(1), R(-1), R(0))),
         rsi      |-> latest(Pick(side, R(60), R(40), R(50))),
         k        |-> latest(Pick(side, <<7, 10>>, <<3, 10>>, <<1, 2>>)),
         d        |-> latest(<<1, 2>>),
         basis    |-> latest(Pick(side, Sub(P, R(1)), Add(P, R(1)), P)),
         volAvg   |-> latest(Sub(V, R(1))),
         prevHigh |-> PrevHigh(df),
         prevLow  |-> PrevLow(df),
         bullishBreakout  |-> BullishBreakout(df),
         bearishBreakdown |-> BearishBreakdown(df),
         atr      |-> IF AtrRaises(df) THEN <<>> ELSE Atr(df)]

\* the series: none or atrWindow - 1 flat bars followed by at most MaxTail bars
CleanSeries ==
    {Stamp(Warm(m) \o t, 1) : m \in {0, atrWindow - 1}, t \in Tails} \ {<<>>}

BreakoutFrames == {BreakoutFrame(s, side) : s \in CleanSeries, side \in {"long", "short"}}

(***************************************************************************)
(* State.  `fetched` is what fetch_data returns for the symbol, `df` the    *)
(* frame, `outcome` what the rest of the loop body did.                    *)
(***************************************************************************)
VARIABLES pc, fetched, df, longSignal, shortSignal, outcome

vars == <<pc, fetched, df, longSignal, shortSignal, outcome>>

NoFrame == [bars |-> <<>>, columns |-> {}]

\* what the loop body did: `kind` is "pending" while it runs, then "no_data",
\* "invalid_price", "buy", "sell" or "no_signal"; the numbers are the locals of main
Pending ==
    [kind |-> "pending", last_close |-> NaN, atr_value |-> NaN,
     take_profit |-> NaN, stop_loss |-> NaN, profit_pct |-> NaN]

(***************************************************************************)
(* The program as given                                                    *)
(***************************************************************************)
Init ==
    /\ pc = "start"
    /\ fetched \in FetchResults
    /\ df = NoFrame
    /\ longSignal = FALSE
    /\ shortSignal = FALSE
    /\ outcome = Pending

\* python crypto_predictor.py: the file is compiled before its first statement
\* runs, and lines 146-150 make the compiler raise SyntaxError.  No function
\* is defined, main is not called, no except branch of the file is in force.
Run ==
    /\ pc = "start"
    /\ pc' = "SyntaxError"
    /\ UNCHANGED <<fetched, df, longSignal, shortSignal, outcome>>

Next == Run

Spec == Init /\ [][Next]_vars

(***************************************************************************)
(* fetch_data and the statements of lines 125-145                          *)
(***************************************************************************)
InitIndicators ==
    /\ pc = "fetch"
    /\ fetched \in FetchResults
    /\ df = NoFrame
    /\ longSignal = FALSE
    /\ shortSignal = FALSE
    /\ outcome = Pending

\* df = fetch_data(symbol, timeframe, limit); None or empty: log and continue
Fetch ==
    /\ pc = "fetch"
    /\ IF fetched = None \/ fetched.rows = <<>>
       THEN /\ df' = NoFrame
            /\ outcome' = [Pending EXCEPT !.kind = "no_data"]
            /\ pc' = "skipped"
       ELSE /\ df' = [bars |-> fetched.rows, columns |-> {}]
            /\ outcome' = Pending
            /\ pc' = "compute"
    /\ UNCHANGED <<fetched, longSignal, shortSignal>>

\* lines 125-145; the text that follows is the malformed statement
ApplyStatements ==
    /\ pc = "compute"
    /\ df' = IndicatorStatements(df.bars)
    /\ pc' = "stochRSI"
    /\ UNCHANGED <<fetched, longSignal, shortSignal, outcome>>

NextIndicators == Fetch \/ ApplyStatements

SpecIndicators == InitIndicators /\ [][NextIndicators]_vars

(***************************************************************************)
(* check_signals and the rest of the loop body                             *)
(***************************************************************************)
InitSignals ==
    /\ pc = "check"
    /\ df \in Frames
    /\ fetched = DataFrame(df.bars)
    /\ longSignal = FALSE
    /\ shortSignal = FALSE
    /\ outcome = Pending

\* longSignal, shortSignal = check_signals(df)
CheckSignals ==
    /\ pc = "check"
    /\ longSignal' = check_signals(df)[1]
    /\ shortSignal' = check_signals(df)[2]
    /\ pc' = "targets"
    /\ UNCHANGED <<fetched, df, outcome>>

\* atr_value = df.iloc[-1]['atr'] if 'atr' in df.columns else last_close * 0.02
AtrValue(frame, last_close) ==
    IF "atr" \in frame.columns THEN Latest(frame, "atr") ELSE Mul(last_close, <<1, 50>>)

\* ((take_profit - last_close) / last_close) * leverage * 100
ProfitPct(gain, last_close) ==
    Mul(Mul(Div(gain, last_close), R(params.leverage)), R(100))


\* the long branch with the two multipliers exchanged
LongTargetsMultipliersExchanged(last_close, atr_value) ==
    LET take_profit == Add(last_close, Mul(atr_value, R(params.stop_loss_atr_multiplier)))
        stop_loss   == Sub(last_close, Mul(atr_value, R(params.take_profit_atr_multiplier)))
    IN  [kind |-> "buy", last_close |-> last_close, atr_value |-> atr_value,
         take_profit |-> take_profit, stop_loss |-> stop_loss,
         profit_pct |-> ProfitPct(Sub(take_profit, last_close), last_close)]

\* the long branch
LongTargets(last_close, atr_value) ==
    LET take_profit == Add(last_close, Mul(atr_value, R(params.take_profit_atr_multiplier)))
        stop_loss   == Sub(last_close, Mul(atr_value, R(params.stop_loss_atr_multiplier)))
    IN  [kind |-> "buy", last_close |-> last_close, atr_value |-> atr_value,
         take_profit |-> take_profit, stop_loss |-> stop_loss,
         profit_pct |-> ProfitPct(Sub(take_profit, last_close), last_close)]

\* the short branch
ShortTargets(last_close, atr_value) ==
    LET take_profit == Sub(last_close, Mul(atr_value, R(params.take_profit_atr_multiplier)))
        stop_loss   == Add(last_close, Mul(atr_value, R(params.stop_loss_atr_multiplier)))
    IN  [kind |-> "sell", last_close |-> last_close, atr_value |-> atr_value,
         take_profit |-> take_profit, stop_loss |-> stop_loss,
         profit_pct |-> ProfitPct(Sub(last_close, take_profit), last_close)]

\* if last_close <= 0: log and continue
InvalidPrice(last_close) == Le(last_close, R(0))


\* the loop body testing shortSignal first
EvaluateShortFirst(frame, long, short) ==
    LET last_close == R(LatestBar(frame).close)
        atr_value  == AtrValue(frame, last_close)
    IN  IF InvalidPrice(last_close)
        THEN [Pending EXCEPT !.kind = "invalid_price", !.last_close = last_close]
        ELSE IF short THEN ShortTargets(last_close, atr_value)
        ELSE IF long THEN LongTargets(last_close, atr_value)
        ELSE [Pending EXCEPT !.kind = "no_signal", !.last_close = last_close,
                             !.atr_value = atr_value]

\* lines 288-334: price guard, ATR, the if / elif / else on the signals.  On a
\* frame that has the columns fetch_data gives it none of these statements
\* raises (send_alert catches its own errors), so the except branch of main
\* (lines 338-339) is not entered from here.
Evaluate(frame, long, short) ==
    LET last_close == R(LatestBar(frame).close)
        atr_value  == AtrValue(frame, last_close)
    IN  IF InvalidPrice(last_close)
        THEN [Pending EXCEPT !.kind = "invalid_price", !.last_close = last_close]
        ELSE IF long THEN LongTargets(last_close, atr_value)
        ELSE IF short THEN ShortTargets(last_close, atr_value)
        ELSE [Pending EXCEPT !.kind = "no_signal", !.last_close = last_close,
                             !.atr_value = atr_value]

\* send_alert(message) is called exactly in the buy and the sell branch
AlertSent(o) == o.kind \in {"buy", "sell"}


Targets ==
    /\ pc = "targets"
    /\ outcome' = Evaluate(df, longSignal, shortSignal)
    /\ pc' = "done"
    /\ UNCHANGED <<fetched, df, longSignal, shortSignal>>

NextSignals == CheckSignals \/ Targets

SpecSignals == InitSignals /\ [][NextSignals]_vars

(***************************************************************************)
(* Lines 288-334 alone: main holds a frame and two flags when it reaches   *)
(* line 288.  check_signals never returns (True, True); the text of the    *)
(* if / elif / else is applied to that pair as to the other three.         *)
(***************************************************************************)
InitTargets ==
    /\ pc = "targets"
    /\ df \in Frames
    /\ fetched = DataFrame(df.bars)
    /\ longSignal \in BOOLEAN
    /\ shortSignal \in BOOLEAN
    /\ outcome = Pending

NextTargets == Targets

SpecTargets == InitTargets /\ [][NextTargets]_vars

(***************************************************************************)
(* check_signals and the rest of the loop body on the frames whose         *)
(* breakout flags and ATR come from a bar series                           *)
(***************************************************************************)
InitBreakout ==
    /\ pc = "check"
    /\ df \in BreakoutFrames
    /\ fetched = DataFrame(df.bars)
    /\ longSignal = FALSE
    /\ shortSignal = FALSE
    /\ outcome = Pending

SpecBreakout == InitBreakout /\ [][NextSignals]_vars

(***************************************************************************)
(* Properties                                                              *)
(***************************************************************************)
\* the statements of lines 125-145 have been applied
Computed == pc = "stochRSI" /\ df.bars # <<>>

\* check_signals has returned
Checked == pc \in {"targets", "done"} /\ df.bars # <<>>

\* the loop body has ended
Evaluated == pc = "done" /\ df.bars # <<>>

\* the latest value of a column; NaN when the frame has no such column
Val(frame, name) == IF name \in frame.columns THEN Latest(frame, name) ELSE NaN

Flag(frame, name) == name \in frame.columns /\ Latest(frame, name)

Close(frame) == R(LatestBar(frame).close)

Volume(frame) == R(LatestBar(frame).volume)

\* the first five clauses hold: the evaluation reaches the k > d clause
FiveLong(frame) ==
    /\ Gt(Close(frame), Val(frame, "emaFast"))
    /\ Gt(Close(frame), Val(frame, "emaSlow"))
    /\ Gt(Val(frame, "macdLine"), Val(frame, "signalLine"))
    /\ Gt(Val(frame, "macdHist"), R(0))
    /\ Gt(Val(frame, "rsi"), R(55))

FiveShort(frame) ==
    /\ Lt(Close(frame), Val(frame, "emaFast"))
    /\ Lt(Close(frame), Val(frame, "emaSlow"))
    /\ Lt(Val(frame, "macdLine"), Val(frame, "signalLine"))
    /\ Lt(Val(frame, "macdHist"), R(0))
    /\ Lt(Val(frame, "rsi"), R(45))

NineLong(frame) ==
    /\ FiveLong(frame)
    /\ Gt(Val(frame, "k"), Val(frame, "d"))
    /\ Gt(Close(frame), Val(frame, "basis"))
    /\ Gt(Volume(frame), Val(frame, "volAvg"))
    /\ Flag(frame, "bullishBreakout")

NineShort(frame) ==
    /\ FiveShort(frame)
    /\ Lt(Val(frame, "k"), Val(frame, "d"))
    /\ Lt(Close(frame), Val(frame, "basis"))
    /\ Gt(Volume(frame), Val(frame, "volAvg"))
    /\ Flag(frame, "bearishBreakdown")


\* C1: once check_signals has returned, longSignal is true exactly when the
\* nine long clauses hold on the latest row and shortSignal exactly when the
\* nine short clauses hold; the two results are functions of that row alone.
C1_SignalsAreTheNineClauses ==
    Checked => /\ longSignal <=> NineLong(df)
               /\ shortSignal <=> NineShort(df)

\* a frame whose latest row satisfies all nine long clauses, answered with
\* longSignal true and shortSignal false
C1_Witness == Checked /\ NineLong(df) /\ longSignal /\ ~shortSignal

NotComputed(o) ==
    IsNaN(o.take_profit) /\ IsNaN(o.stop_loss) /\ IsNaN(o.profit_pct)

\* C2: when the if / elif / else of main is reached (latest close strictly
\* positive), the Long branch is taken whenever longSignal is true, also when
\* shortSignal is true as well; the Short branch is taken when only
\* shortSignal is true; with neither no targets are computed and no alert is
\* sent.
C2_LongPrecedence ==
    (Evaluated /\ outcome.kind # "invalid_price") =>
        /\ longSignal => outcome.kind = "buy"
        /\ (~longSignal /\ shortSignal) => outcome.kind = "sell"
        /\ (~longSignal /\ ~shortSignal) => (outcome.kind = "no_signal" /\ NotComputed(outcome))

\* both flags true and the buy alert sent
C2_Witness ==
    /\ Evaluated /\ longSignal /\ shortSignal
    /\ outcome.kind = "buy" /\ Gt(outcome.take_profit, outcome.last_close)

\* C3: with rsi_threshold_long = 55 and rsi_threshold_short = 45, on no latest
\* row does check_signals answer longSignal and shortSignal both true.
C3_LongShortExclusive == Checked => ~(longSignal /\ shortSignal)

\* a frame whose latest row satisfies all nine short clauses, answered with
\* shortSignal true and longSignal false
C3_Witness == Checked /\ NineShort(df) /\ shortSignal /\ ~longSignal

\* C4: the targets of an alert follow from the latest close P, the ATR value
\* A and the multipliers.  Long: take_profit = P + 2A, stop_loss = P - A,
\* return = ((take_profit - P) / P) * leverage * 100.  Short: take_profit =
\* P - 2A, stop_loss = P + A, return = ((P - take_profit) / P) * leverage * 100.
\* A is the latest value of the atr column wherever the frame has one.
C4_TargetFormulas ==
    (Evaluated /\ AlertSent(outcome)) =>
        LET P == Close(df)
            A == outcome.atr_value
            L == R(defaults.leverage)
        IN  /\ outcome.last_close = P
            /\ "atr" \in df.columns => A = Latest(df, "atr")
            /\ outcome.kind = "buy" =>
                  /\ outcome.take_profit = Add(P, Mul(A, R(2)))
                  /\ outcome.stop_loss = Sub(P, Mul(A, R(1)))
                  /\ outcome.profit_pct =
                        Mul(Mul(Div(Sub(outcome.take_profit, P), P), L), R(100))
            /\ outcome.kind = "sell" =>
                  /\ outcome.take_profit = Sub(P, Mul(A, R(2)))
                  /\ outcome.stop_loss = Add(P, Mul(A, R(1)))
                  /\ outcome.profit_pct =
                        Mul(Mul(Div(Sub(P, outcome.take_profit), P), L), R(100))

\* a sell alert on a frame with an atr column
C4_Witness ==
    /\ Evaluated /\ outcome.kind = "sell" /\ "atr" \in df.columns
    /\ Lt(outcome.take_profit, outcome.last_close)

\* a field of the latest row is undefined: its column is missing or its value is NaN
Undefined(frame, name) == name \notin frame.columns \/ IsNaN(Latest(frame, name))

RequiredFields ==
    {"emaFast", "emaSlow", "macdLine", "signalLine", "macdHist", "rsi", "k", "d",
     "basis", "volAvg", "atr"}

\* C5: a pass whose latest close is not strictly positive, or whose latest
\* row lacks any field the evaluation needs, ATR included, ends without an
\* alert and without targets; and no alert carries a NaN or infinite target.
C5_NoTargetsWhenUndefined ==
    Evaluated =>
        /\ (Le(Close(df), R(0)) \/ \E f \in RequiredFields : Undefined(df, f))
              => (~AlertSent(outcome) /\ NotComputed(outcome))
        /\ AlertSent(outcome)
              => (IsFinite(outcome.take_profit) /\ IsFinite(outcome.stop_loss)
                  /\ IsFinite(outcome.profit_pct))


\* C6 (as claimed): on every row of a computed frame where rsi_max equals
\* rsi_min the stochRSI column holds exactly 0, and on every other row whose
\* window is defined it holds (rsi - rsi_min) / (rsi_max - rsi_min).
C6_StochGuard ==
    Computed => \A i \in 1..Len(df.bars) :
        (~IsNaN(df.rsi_min[i]) /\ ~IsNaN(df.rsi_max[i])) =>
            /\ "stochRSI" \in df.columns
            /\ df.stochRSI[i] = IF df.rsi_max[i] = df.rsi_min[i] THEN R(0)
                                ELSE Div(Sub(df.rsi[i], df.rsi_min[i]),
                                         Sub(df.rsi_max[i], df.rsi_min[i]))

\* the window length of each windowed field (14: the window of the ATR call)
WindowOf ==
    [emaFast |-> params.emaFastLen, emaSlow |-> params.emaSlowLen, rsi |-> params.rsiLen,
     rsi_min |-> params.stochLen, rsi_max |-> params.stochLen,
     k |-> params.stoch_smooth_k, d |-> params.stoch_smooth_d,
     basis |-> params.bbLen, std |-> params.bbLen, volAvg |-> params.volAvg_window,
     atr |-> 14]

\* C7 (as claimed): a windowed field is undefined on every row of the frame
\* computed from a series shorter than the field's window.
C7_UndefinedBelowWindow ==
    Computed => \A f \in DOMAIN WindowOf :
        Len(df.bars) < WindowOf[f] =>
            (f \notin df.columns \/ \A i \in 1..Len(df.bars) : IsNaN(df[f][i]))

\* the timestamps are strictly increasing
Monotonic(bars) == \A i \in 1..(Len(bars) - 1) : bars[i].timestamp < bars[i + 1].timestamp

\* C8 (as claimed): compute_indicators on a series whose timestamps are not
\* strictly increasing fails: it hands back no indicator column at all.
C8_InvalidInputRejected ==
    (Computed /\ ~Monotonic(df.bars)) => df.columns = {}


\* C9 (as claimed): no error raised out of the text of compute_indicators or
\* check_signals reaches the caller: the run never stops on one.
C9_NoErrorPropagates == pc # "SyntaxError"

\* a long alert has stop_loss < close < take_profit, a short alert
\* take_profit < close < stop_loss
Brackets(o) ==
    /\ o.kind = "buy" => (Lt(o.stop_loss, o.last_close) /\ Lt(o.last_close, o.take_profit))
    /\ o.kind = "sell" => (Lt(o.take_profit, o.last_close) /\ Lt(o.last_close, o.stop_loss))

\* C10: on exchange-clean bars and with the multipliers 2 and 1, every alert
\* that is sent has targets strictly on either side of the latest close: the
\* ATR value used is strictly positive whenever a breakout or breakdown row
\* leads to an alert.
C10_TargetsBracketClose ==
    (Evaluated /\ AlertSent(outcome)) => (Gt(outcome.atr_value, R(0)) /\ Brackets(outcome))

\* a buy alert on a series long enough for the ATR, with the ATR of the
\* latest row as the value used
C10_Witness ==
    /\ Evaluated /\ outcome.kind = "buy" /\ Len(df.bars) >= atrWindow
    /\ "atr" \in df.columns /\ outcome.atr_value = Latest(df, "atr")
    /\ Brackets(outcome)

====
